---- MODULE Spec2Model ----
(***************************************************************************)
(* A model of BetterSQL (src/main.py): a convenience layer over sqlite3.   *)
(* The state is the BetterSQL object (history, transaction), the sqlite3   *)
(* connection it owns (working database, durable database, open            *)
(* transaction flag) and a record of the last public call.                 *)
(*                                                                         *)
(* SQL statements are the strings the code formats; here a statement is a  *)
(* record [kind, table, args] that keeps every token the code interpolates *)
(* (column names, type keywords, value literals) as text.                  *)
(***************************************************************************)
EXTENDS Integers, Sequences, FiniteSets, TLC

VARIABLES
    db,           \* database as this connection sees it: table name -> table
    committed,    \* database as made durable by the last commit / autocommit
    inTx,         \* sqlite3 connection has an open (implicit) transaction
    transaction,  \* BetterSQL.transaction: pending (command, outcome, message)
    history,      \* BetterSQL.history: the entries the reported call appended
    last,         \* the public call that just ended: arguments, result, driver calls
    diff_in,      \* inputs of the column diff (used by DiffSpec only)
    diff_out,     \* outputs of the column diff (used by DiffSpec only)
    callers       \* create_table calls in progress on connections of their own
                  \* (used by ConcSpec only)

vars == <<db, committed, inTx, transaction, history, last, diff_in, diff_out, callers>>

(* A public method runs to its end in one step, which leaves its report in *)
(* last; the caller then takes the result (Return) and is free to make the *)
(* next call.  BetterSQL.history is only ever appended to (line 125) and   *)
(* never read, so the variable keeps the part of the list written by the   *)
(* reported call instead of the whole list.                                *)

---------------------------------------------------------------------------
(* Bounds *)

MaxCols == 2      \* longest declared column list
MaxPending == 2   \* a public call starts only with fewer pending entries than this
MaxFault == 3     \* a transient driver error can hit the 1st..MaxFault-th execute of a call
MaxRows == 2      \* create_record is called only on a table with fewer rows
MaxFilters == 1   \* most filters passed to get_all_records / delete_all_records
MaxObserved == 2  \* longest observed column list drawn by DiffSpec

TableNames == {"Testing"}
ColumnNames == {"Name", "Age"}
DiffNames == {"Name", "Age", "Email"}
\* the columns callers declare: Column("Name"), Column("Age", int) (line 273)
DeclaredColumns == {<<"Name", "str">>, <<"Age", "int">>}

---------------------------------------------------------------------------
(* Sequence helpers *)

Range(s) == {s[i] : i \in 1..Len(s)}

SeqsUpTo(S, n) == UNION {[1..k -> S] : k \in 0..n}

RECURSIVE SelectIdx(_, _, _)
\* the subsequence of s at the positions i >= from with keep[i]
SelectIdx(s, keep, from) ==
    IF from > Len(s) THEN <<>>
    ELSE IF keep[from] THEN <<s[from]>> \o SelectIdx(s, keep, from + 1)
    ELSE SelectIdx(s, keep, from + 1)

---------------------------------------------------------------------------
(* sql_types and Column *)

\* the dict literal, in insertion order: <<python type, SQL keyword>>
sql_types ==
    << <<"None", "NULL">>, <<"int", "INTEGER">>, <<"float", "REAL">>,
       <<"str", "STRING">>, <<"bytes", "BLOB">> >>

sql_types_keys == [i \in 1..Len(sql_types) |-> sql_types[i][1]]
sql_types_values == [i \in 1..Len(sql_types) |-> sql_types[i][2]]

\* list.index: the first position holding x
ListIndex(s, x) == CHOOSE i \in 1..Len(s) : s[i] = x /\ \A j \in 1..(i - 1) : s[j] # x

\* sql_types[key]
sql_types_getitem(key) == sql_types_values[ListIndex(sql_types_keys, key)]

\* Column.__init__: column_type is a python type ("int"), a bool instance
\* ("True"/"False") or an SQL keyword ("INTEGER"); raised is the failed assert
Column(name, column_type) ==
    LET t1 == IF column_type \in {"True", "False"} THEN "int" ELSE column_type
        t2 == IF t1 \in Range(sql_types_values)
              THEN sql_types_keys[ListIndex(sql_types_values, t1)]
              ELSE t1
    IN  [name |-> name, type |-> t2, raised |-> ~(t2 \in Range(sql_types_keys))]

\* a Column object: an identity (oid) plus its two attributes
ColumnObject(oid, name, column_type) ==
    [oid |-> oid, name |-> name, type |-> Column(name, column_type).type]

\* a comparison of the str with the column's name
StrEqColumn_byname(s, c) == s = c.name

\* Column defines no __eq__: str == Column is False for every pair
StrEqColumn(s, c) == FALSE

\* Column defines no __eq__: Column == Column is object identity
ColumnEqColumn(c1, c2) == c1.oid = c2.oid

\* Column defines no __str__: an f-string renders the default repr
ColumnStr(c) == "<__main__.Column object>"

---------------------------------------------------------------------------
(* The sqlite3 driver: statements and their effect on one table *)

NoTable == [exists |-> FALSE, cols |-> <<>>, rows |-> <<>>]

\* a python value as the driver hands it back: its type and its text
PyNone == [t |-> "NoneType", s |-> "None"]

PyInt(text) == [t |-> "int", s |-> text]
PyStr(text) == [t |-> "str", s |-> text]

\* the decimal texts the model uses, and their numbers
NumericTexts == {"1", "2"}
IntOf(text) == IF text = "1" THEN 1 ELSE 2

\* the value sqlite stores for a text literal in a column declared with keyword kw:
\* INTEGER and NUMERIC affinity (INTEGER, STRING, NULL) turn a well-formed
\* number into an integer, REAL into a float, BLOB keeps the text
StoredValue(kw, text) ==
    IF kw = "BLOB" \/ text \notin NumericTexts THEN PyStr(text)
    ELSE IF kw = "REAL" THEN [t |-> "float", s |-> text]
    ELSE PyInt(text)

\* column = 'text' for a stored cell: NULL equals nothing, and the column's
\* affinity is applied to the literal before the comparison
CellMatches(kw, cell, text) == cell # PyNone /\ cell = StoredValue(kw, text)

Stmt(kind, table_name, args) == [kind |-> kind, table |-> table_name, args |-> args]

ColNames(cols) == [i \in 1..Len(cols) |-> cols[i].name]

HasDuplicates(s) == \E i, j \in 1..Len(s) : i # j /\ s[i] = s[j]

\* the repr of an object is not an identifier: sqlite reports a syntax error
IsIdentifier(text) == text # "<__main__.Column object>"

\* sqlite3_prepare succeeds: the statement parses and its names resolve
Prepares(t, cmd) ==
    CASE cmd.kind = "SELECT_MASTER" -> TRUE
      [] cmd.kind = "PRAGMA_TABLE_INFO" -> TRUE
      [] cmd.kind = "CREATE_TABLE" ->
            /\ ~t.exists
            /\ cmd.args # <<>>
            /\ \A i \in 1..Len(cmd.args) : IsIdentifier(cmd.args[i].name)
            /\ ~HasDuplicates(ColNames(cmd.args))
      [] cmd.kind = "ALTER_ADD" ->
            /\ t.exists
            /\ IsIdentifier(cmd.args[1].name)
            /\ cmd.args[1].name \notin Range(ColNames(t.cols))
      [] cmd.kind = "ALTER_DROP" ->
            /\ t.exists
            /\ IsIdentifier(cmd.args[1].name)
            /\ cmd.args[1].name \in Range(ColNames(t.cols))
            /\ Len(t.cols) > 1
      [] cmd.kind = "DROP_TABLE" -> t.exists
      [] cmd.kind = "SELECT_ALL" -> t.exists
      [] cmd.kind = "INSERT" ->
            /\ t.exists
            /\ cmd.args # <<>>
            /\ \A i \in 1..Len(cmd.args) : cmd.args[i].name \in Range(ColNames(t.cols))
      [] cmd.kind = "DELETE" ->
            /\ t.exists
            /\ cmd.args # <<>>
            /\ \A i \in 1..Len(cmd.args) : cmd.args[i].name \in Range(ColNames(t.cols))
      [] OTHER -> FALSE

\* the row INSERT INTO t (names) VALUES (literals) adds: NULL where no value is given
InsertedRow(t, args) ==
    [i \in 1..Len(t.cols) |->
        IF \E a \in 1..Len(args) : args[a].name = t.cols[i].name
        THEN LET a == CHOOSE a \in 1..Len(args) : args[a].name = t.cols[i].name
             IN  StoredValue(t.cols[i].text, args[a].text)
        ELSE PyNone]

\* the row satisfies every `name = 'text'` of a DELETE's WHERE clause
RowMatches(t, row, args) ==
    \A a \in 1..Len(args) :
        \E i \in 1..Len(t.cols) :
            /\ t.cols[i].name = args[a].name
            /\ CellMatches(t.cols[i].text, row[i], args[a].text)

\* the table after a statement that ran
Effect(t, cmd) ==
    CASE cmd.kind = "CREATE_TABLE" ->
            [exists |-> TRUE, cols |-> cmd.args, rows |-> <<>>]
      [] cmd.kind = "ALTER_ADD" ->
            [t EXCEPT !.cols = Append(@, cmd.args[1]),
                      !.rows = [r \in 1..Len(t.rows) |-> Append(t.rows[r], PyNone)]]
      [] cmd.kind = "ALTER_DROP" ->
            LET keep == [i \in 1..Len(t.cols) |-> t.cols[i].name # cmd.args[1].name]
            IN  [t EXCEPT !.cols = SelectIdx(t.cols, keep, 1),
                          !.rows = [r \in 1..Len(t.rows) |-> SelectIdx(t.rows[r], keep, 1)]]
      [] cmd.kind = "DROP_TABLE" -> NoTable
      [] cmd.kind = "INSERT" ->
            [t EXCEPT !.rows = Append(@, InsertedRow(t, cmd.args))]
      [] cmd.kind = "DELETE" ->
            LET keep == [r \in 1..Len(t.rows) |-> ~RowMatches(t, t.rows[r], cmd.args)]
            IN  [t EXCEPT !.rows = SelectIdx(t.rows, keep, 1)]
      [] OTHER -> t

\* the rows a statement that ran leaves in the cursor
ResultRows(t, cmd) ==
    CASE cmd.kind = "SELECT_MASTER" -> IF t.exists THEN <<cmd.table>> ELSE <<>>
      [] cmd.kind = "PRAGMA_TABLE_INFO" -> t.cols
      [] cmd.kind = "SELECT_ALL" -> t.rows
      [] OTHER -> <<>>

\* sqlite3 (legacy transaction control) opens a transaction before DML only
IsDML(cmd) == cmd.kind \in {"INSERT", "DELETE"}

(* The running call: the object and connection state threaded through one  *)
(* public method, with n the number of cursor.execute calls made so far,   *)
(* fault the execute that hits a transient driver error (0: none), fetch   *)
(* the rows left in the cursor, ok the outcome of the last execute, ret    *)
(* the value returned by the last helper and raised the exception that is  *)
(* propagating ("" for none).                                              *)

\* outside a transaction sqlite3 makes each statement durable as it runs
Autocommit(m) == IF m.inTx THEN m ELSE [m EXCEPT !.committed = m.db]

\* cursor.execute(command) returns: the statement ran
Ran(m, cmd) ==
    Autocommit(
        [m EXCEPT !.n = @ + 1,
                  !.db = [@ EXCEPT ![cmd.table] = Effect(@, cmd)],
                  !.inTx = @ \/ IsDML(cmd),
                  !.ok = TRUE,
                  !.fetch = ResultRows(m.db[cmd.table], cmd),
                  !.calls = Append(@, [call |-> "execute", cmd |-> cmd, ok |-> TRUE])])

\* cursor.execute(command) raises: a statement that does not prepare opens
\* no transaction, a transient error hits after the implicit BEGIN
Failed(m, cmd) ==
    [m EXCEPT !.n = @ + 1,
              !.inTx = @ \/ (IsDML(cmd) /\ Prepares(m.db[cmd.table], cmd)),
              !.ok = FALSE,
              !.fetch = <<>>,
              !.calls = Append(@, [call |-> "execute", cmd |-> cmd, ok |-> FALSE])]

\* cursor.execute(command): ok is FALSE where the code's try block raises
cursor_execute(m, cmd) ==
    IF Prepares(m.db[cmd.table], cmd) /\ m.n + 1 # m.fault
    THEN Ran(m, cmd)
    ELSE Failed(m, cmd)

NoStmt == Stmt("", "", <<>>)

\* database.commit()
database_commit(m) ==
    [m EXCEPT !.committed = m.db, !.inTx = FALSE,
              !.calls = Append(@, [call |-> "commit", cmd |-> NoStmt, ok |-> TRUE])]

\* database.rollback()
database_rollback(m) ==
    [m EXCEPT !.db = m.committed, !.inTx = FALSE,
              !.calls = Append(@, [call |-> "rollback", cmd |-> NoStmt, ok |-> TRUE])]

---------------------------------------------------------------------------
(* BetterSQL *)

\* lines 108-116: the outcome of the command is logged unless exclude
LogOutcome(m, command, exclude, message) ==
    IF exclude THEN m
    ELSE [m EXCEPT !.transaction =
             Append(@, [cmd |-> command, ok |-> m.ok, msg |-> message])]

\* BetterSQL.execute: ok is the result
execute(m, command, exclude, message) ==
    LogOutcome(cursor_execute(m, command), command, exclude, message)

\* a _commit that decides on the newest pending entry alone
_commit_newest(m) ==
    IF m.transaction # <<>> /\ m.transaction[Len(m.transaction)].ok = FALSE
    THEN [database_rollback(m) EXCEPT !.history = @ \o m.transaction,
                                      !.transaction = <<>>]
    ELSE [database_commit(m) EXCEPT !.history = @ \o m.transaction,
                                    !.transaction = <<>>]

\* BetterSQL._commit
_commit(m) ==
    IF \E i \in 1..Len(m.transaction) : m.transaction[i].ok = FALSE
    THEN [database_rollback(m) EXCEPT !.history = @ \o m.transaction,
                                      !.transaction = <<>>]
    ELSE [database_commit(m) EXCEPT !.history = @ \o m.transaction,
                                    !.transaction = <<>>]

\* bool(self.cursor.fetchone())
FetchOne(m) == [m EXCEPT !.ret = (m.fetch # <<>>)]

\* BetterSQL.table_exists: ret is bool(cursor.fetchone())
table_exists(m, table_name) ==
    FetchOne(execute(m, Stmt("SELECT_MASTER", table_name, <<>>), FALSE,
                     "Checking if table exists"))

\* [Column(column[1], column[2]) for column in rows]: new Column objects,
\* whose identities start after the base objects the caller already holds
FetchedColumns(rows, base) ==
    [i \in 1..Len(rows) |-> ColumnObject(base + i, rows[i].name, rows[i].text)]

\* line 211: the Column objects of the fetched rows, or the failed assert
FetchAll(m, base) ==
    IF \E i \in 1..Len(m.fetch) : Column(m.fetch[i].name, m.fetch[i].text).raised
    THEN [m EXCEPT !.raised = "AssertionError"]
    ELSE [m EXCEPT !.ret = FetchedColumns(m.fetch, base)]

\* BetterSQL.get_columns: ret is the list of Column objects
get_columns(m, table_name, base) ==
    FetchAll(execute(m, Stmt("PRAGMA_TABLE_INFO", table_name, <<>>), TRUE, "None"), base)

---------------------------------------------------------------------------
(* create_table: the column comparison (lines 145-157) *)

\* [column.name for column in columns] == table_columns
\* (list equality: same length and pairwise ==, a str against a Column)
Unmodified(columns, table_columns) ==
    /\ Len(columns) = Len(table_columns)
    /\ \A i \in 1..Len(columns) : StrEqColumn(columns[i].name, table_columns[i])

\* the declared names with `column in table_columns`
to_create_present(columns, table_columns) ==
    LET present == [i \in 1..Len(columns) |->
                      \E j \in 1..Len(table_columns) :
                          columns[i].name = table_columns[j].name]
    IN  SelectIdx(ColNames(columns), present, 1)

\* the declared names with `column not in table_columns` (a str in a list of Column)
to_create(columns, table_columns) ==
    LET absent == [i \in 1..Len(columns) |->
                     ~\E j \in 1..Len(table_columns) :
                          StrEqColumn(columns[i].name, table_columns[j])]
    IN  SelectIdx(ColNames(columns), absent, 1)

\* the observed Column objects with `column not in columns` (a Column in a list of Column)
to_delete(columns, table_columns) ==
    LET absent == [i \in 1..Len(table_columns) |->
                     ~\E j \in 1..Len(columns) :
                          ColumnEqColumn(table_columns[i], columns[j])]
    IN  SelectIdx(table_columns, absent, 1)

NoColumn == [oid |-> 0, name |-> "", type |-> "None"]

\* columns[column_name]: a list subscripted with a str raises TypeError
columns_getitem(columns, column_name) == [raised |-> "TypeError", value |-> NoColumn]

\* the column definitions of the CREATE TABLE statement
CreateArgs(columns) ==
    [i \in 1..Len(columns) |->
        [name |-> columns[i].name, text |-> sql_types_getitem(columns[i].type)]]

\* the column token, had the statement interpolated the column's name
DropArgs_named(column) == <<[name |-> column.name, text |-> ""]>>

\* the column token of an ALTER TABLE ... DROP COLUMN statement
DropArgs(column) == <<[name |-> ColumnStr(column), text |-> ""]>>

RECURSIVE create_columns(_, _, _, _, _)
\* the loop of lines 160-163, from the i-th name of tc on
create_columns(m, table_name, columns, tc, i) ==
    IF i > Len(tc) THEN m
    ELSE LET item == columns_getitem(columns, tc[i])
         IN  IF item.raised # "" THEN [m EXCEPT !.raised = item.raised]
             ELSE create_columns(
                      execute(m, Stmt("ALTER_ADD", table_name,
                                      <<[name |-> tc[i],
                                         text |-> sql_types_getitem(item.value.type)]>>),
                              FALSE, "None"),
                      table_name, columns, tc, i + 1)

RECURSIVE delete_columns(_, _, _, _)
\* the loop of lines 165-166, from the i-th column of td on
delete_columns(m, table_name, td, i) ==
    IF i > Len(td) THEN m
    ELSE delete_columns(
             execute(m, Stmt("ALTER_DROP", table_name, DropArgs(td[i])), FALSE, "None"),
             table_name, td, i + 1)

PyBool(b) == IF b THEN "True" ELSE "False"

\* lines 175-176
create_table_commit(m) == [_commit(m) EXCEPT !.ret = "True"]

\* lines 165-176, unless building an ADD statement raised
create_table_delete(m, table_name, td) ==
    IF m.raised # "" THEN m
    ELSE create_table_commit(delete_columns(m, table_name, td, 1))

\* lines 145-176, with table_columns the result of get_columns in m.ret
create_table_update(m, table_name, columns) ==
    IF m.raised # "" THEN m
    ELSE IF Unmodified(columns, m.ret) THEN [m EXCEPT !.ret = "False"]
    ELSE create_table_delete(
             create_columns(m, table_name, columns, to_create(columns, m.ret), 1),
             table_name, to_delete(columns, m.ret))

\* lines 168-176: the table is created from the declared columns
create_table_create(m, table_name, columns) ==
    create_table_commit(
        execute(m, Stmt("CREATE_TABLE", table_name, CreateArgs(columns)), FALSE, "None"))

\* lines 142-176, with the result of table_exists in m.ret
create_table_branch(m, table_name, columns) ==
    IF m.ret
    THEN create_table_update(get_columns(m, table_name, Len(columns)), table_name, columns)
    ELSE create_table_create(m, table_name, columns)

\* BetterSQL.create_table
create_table(m, table_name, columns) ==
    create_table_branch(table_exists(m, table_name), table_name, columns)

\* `self._commit(); return success`, with success the outcome of the execute
commit_return_success(m) == [_commit(m) EXCEPT !.ret = PyBool(m.ok)]

\* BetterSQL.delete_table
delete_table(m, table_name) ==
    commit_return_success(execute(m, Stmt("DROP_TABLE", table_name, <<>>), FALSE, "None"))

---------------------------------------------------------------------------
(* Records *)

\* BetterSQL._clean_string: quotes are removed from a str, other values pass
_clean_string(value) ==
    IF value.t = "str" /\ value.s = "O'Neil" THEN PyStr("ONeil") ELSE value

\* the (column, "value") pairs create_record interpolates; kwargs is the
\* keyword arguments in call order, each [name, callable, value]
InsertArgs(kwargs) ==
    [i \in 1..Len(kwargs) |->
        [name |-> kwargs[i].name, text |-> _clean_string(kwargs[i].value).s]]

\* BetterSQL.create_record
create_record(m, table_name, kwargs) ==
    commit_return_success(
        execute(m, Stmt("INSERT", table_name, InsertArgs(kwargs)), FALSE, "None"))

\* a record is a dict, here the (name, value) pairs in column order
DictHas(record, key) == \E i \in 1..Len(record) : record[i].name = key
DictGet(record, key) == record[CHOOSE i \in 1..Len(record) : record[i].name = key].value

RECURSIVE FilterRecord(_, _, _)
\* the inner loop of lines 241-248 from the i-th filter on: "keep" (the else
\* of the for), "drop" (a break) or the exception raised.  A callable filter
\* is lambda x: x > value, which raises TypeError unless x is an int.
FilterRecord(record, kwargs, i) ==
    IF i > Len(kwargs) THEN "keep"
    ELSE IF ~DictHas(record, kwargs[i].name) THEN "KeyError"
    ELSE LET x == DictGet(record, kwargs[i].name)
         IN  IF kwargs[i].callable
             THEN IF x.t # "int" THEN "TypeError"
                  ELSE IF IntOf(x.s) > IntOf(kwargs[i].value.s)
                       THEN FilterRecord(record, kwargs, i + 1)
                       ELSE "drop"
             ELSE IF x # kwargs[i].value THEN "drop"
                  ELSE FilterRecord(record, kwargs, i + 1)

\* line 237: one dict per fetched row
Records(rows, columns) ==
    [r \in 1..Len(rows) |->
        [i \in 1..Len(columns) |-> [name |-> columns[i].name, value |-> rows[r][i]]]]

\* a filter loop whose break does not keep the record from the output
FilterOutcome_nobreak(m, records, outcome) ==
    IF \E r \in 1..Len(records) : outcome[r] \notin {"keep", "drop"}
    THEN [m EXCEPT !.raised =
             outcome[CHOOSE r \in 1..Len(records) :
                        /\ outcome[r] \notin {"keep", "drop"}
                        /\ \A q \in 1..(r - 1) : outcome[q] \in {"keep", "drop"}]]
    ELSE [m EXCEPT !.ret = records]

\* lines 239-249: the records kept, or the first exception a filter raised
FilterOutcome(m, records, outcome) ==
    IF \E r \in 1..Len(records) : outcome[r] \notin {"keep", "drop"}
    THEN [m EXCEPT !.raised =
             outcome[CHOOSE r \in 1..Len(records) :
                        /\ outcome[r] \notin {"keep", "drop"}
                        /\ \A q \in 1..(r - 1) : outcome[q] \in {"keep", "drop"}]]
    ELSE [m EXCEPT !.ret =
             SelectIdx(records, [r \in 1..Len(records) |-> outcome[r] = "keep"], 1)]

\* lines 238-251
FilterRecords(m, records, kwargs) ==
    IF kwargs = <<>> THEN [m EXCEPT !.ret = records]
    ELSE FilterOutcome(m, records,
                       [r \in 1..Len(records) |-> FilterRecord(records[r], kwargs, 1)])

\* lines 237-251, with the columns in m.ret and the fetched rows
get_all_records_build(m, rows, kwargs) ==
    IF m.raised # "" THEN m
    ELSE FilterRecords(m, Records(rows, m.ret), kwargs)

\* lines 235-251, with the rows of the SELECT in m.fetch
get_all_records_fetch(m, table_name, kwargs) ==
    get_all_records_build(get_columns(m, table_name, 0), m.fetch, kwargs)

\* BetterSQL.get_all_records: ret is the list of records
get_all_records(m, table_name, kwargs) ==
    get_all_records_fetch(
        execute(m, Stmt("SELECT_ALL", table_name, <<>>), Len(kwargs) > 0, "None"),
        table_name, kwargs)

\* the `key = 'value'` pairs of the DELETE for one record
DeleteArgs(record) ==
    [i \in 1..Len(record) |-> [name |-> record[i].name, text |-> record[i].value.s]]

RECURSIVE delete_records(_, _, _, _)
\* the loop of lines 263-266, from the i-th record on
delete_records(m, table_name, records, i) ==
    IF i > Len(records) THEN m
    ELSE delete_records(
             execute(m, Stmt("DELETE", table_name, DeleteArgs(records[i])), FALSE, "None"),
             table_name, records, i + 1)

\* lines 262-266, with the records in m.ret
delete_all_records_loop(m, table_name) ==
    IF m.raised # "" THEN m
    ELSE [delete_records(m, table_name, m.ret, 1) EXCEPT !.ret = "None"]

\* BetterSQL.delete_all_records: no return statement, no _commit
delete_all_records(m, table_name, kwargs) ==
    delete_all_records_loop(get_all_records(m, table_name, kwargs), table_name)

---------------------------------------------------------------------------
(* The state machine *)

\* the argument lists a caller can build: Column(name, type) objects
DeclaredLists ==
    {[i \in 1..Len(f) |-> ColumnObject(i, f[i][1], f[i][2])] :
        f \in SeqsUpTo(DeclaredColumns, MaxCols)}

InsertValues == {PyInt("1"), PyInt("2")}
FilterValues == {PyInt("1"), PyInt("2")}

\* keyword arguments: at most one per column name, in any order
KwargsOver(values, callables, n) ==
    {k \in SeqsUpTo([name : ColumnNames, callable : callables, value : values], n) :
        ~HasDuplicates(ColNames(k))}

NoDiff == [columns |-> <<>>, rows1 |-> <<>>, rows2 |-> <<>>]
NoDelta == [done |-> FALSE, unmodified1 |-> FALSE, unmodified2 |-> FALSE,
            to_create1 |-> <<>>, to_create2 |-> <<>>,
            to_delete1 |-> <<>>, to_delete2 |-> <<>>,
            table_columns1 |-> <<>>, table_columns2 |-> <<>>]

\* the specification of single calls has no concurrent callers
NoCallers == <<>>

\* no call to report: the caller is between two public calls
Idle ==
    [op |-> "idle", table |-> "", columns |-> <<>>, kwargs |-> <<>>, fault |-> 0,
     result |-> "None", records |-> <<>>, calls |-> <<>>,
     before |-> [t \in TableNames |-> NoTable], pending |-> <<>>, inTx |-> FALSE]

\* BetterSQL.__init__ on a new database file
Init ==
    /\ db = [t \in TableNames |-> NoTable]
    /\ committed = [t \in TableNames |-> NoTable]
    /\ inTx = FALSE
    /\ transaction = <<>>
    /\ history = <<>>
    /\ last = Idle
    /\ diff_in = NoDiff
    /\ diff_out = NoDelta
    /\ callers = NoCallers

\* the object and connection at the start of a public call
Enter(fault) ==
    [db |-> db, committed |-> committed, inTx |-> inTx,
     transaction |-> transaction, history |-> <<>>,
     calls |-> <<>>, n |-> 0, fault |-> fault, ok |-> TRUE, fetch |-> <<>>,
     ret |-> "None", raised |-> ""]

\* the object and connection when the public call returns or raises
Leave(m, op, table_name, columns, kwargs) ==
    /\ db' = m.db
    /\ committed' = m.committed
    /\ inTx' = m.inTx
    /\ transaction' = m.transaction
    /\ history' = m.history
    /\ last' = [op |-> op, table |-> table_name, columns |-> columns,
                kwargs |-> kwargs,
                fault |-> m.fault,
                records |-> IF op = "get_all_records" /\ m.raised = "" THEN m.ret ELSE <<>>,
                result |-> IF m.raised # "" THEN m.raised
                           ELSE IF op = "get_all_records" THEN "list" ELSE m.ret,
                calls |-> m.calls, before |-> db, pending |-> transaction,
                inTx |-> inTx]
    /\ UNCHANGED <<diff_in, diff_out, callers>>

CreateTable ==
    /\ last.op = "idle"
    /\ Len(transaction) < MaxPending
    /\ \E table_name \in TableNames, columns \in DeclaredLists, fault \in 0..MaxFault :
          Leave(create_table(Enter(fault), table_name, columns),
                "create_table", table_name, columns, <<>>)

DeleteTable ==
    /\ last.op = "idle"
    /\ Len(transaction) < MaxPending
    /\ \E table_name \in TableNames, fault \in 0..MaxFault :
          Leave(delete_table(Enter(fault), table_name), "delete_table", table_name, <<>>, <<>>)

CreateRecord ==
    /\ last.op = "idle"
    /\ Len(transaction) < MaxPending
    /\ \E table_name \in TableNames, fault \in 0..MaxFault,
          kwargs \in KwargsOver(InsertValues, {FALSE}, Cardinality(ColumnNames)) :
          /\ Len(db[table_name].rows) < MaxRows
          /\ Leave(create_record(Enter(fault), table_name, kwargs),
                   "create_record", table_name, <<>>, kwargs)

GetAllRecords ==
    /\ last.op = "idle"
    /\ Len(transaction) < MaxPending
    /\ \E table_name \in TableNames, fault \in 0..MaxFault,
          kwargs \in KwargsOver(FilterValues, BOOLEAN, MaxFilters) :
          Leave(get_all_records(Enter(fault), table_name, kwargs),
                "get_all_records", table_name, <<>>, kwargs)

DeleteAllRecords ==
    /\ last.op = "idle"
    /\ Len(transaction) < MaxPending
    /\ \E table_name \in TableNames, fault \in 0..MaxFault,
          kwargs \in KwargsOver(FilterValues, BOOLEAN, MaxFilters) :
          Leave(delete_all_records(Enter(fault), table_name, kwargs),
                "delete_all_records", table_name, <<>>, kwargs)

\* the caller takes the result of the call
Return ==
    /\ last.op # "idle"
    /\ last' = Idle
    /\ history' = <<>>
    /\ UNCHANGED <<db, committed, inTx, transaction, diff_in, diff_out, callers>>

Next ==
    \/ Return
    \/ CreateTable
    \/ DeleteTable
    \/ CreateRecord
    \/ GetAllRecords
    \/ DeleteAllRecords

Spec == Init /\ [][Next]_vars

---------------------------------------------------------------------------
(* The column comparison of create_table on its own: a declared list and   *)
(* two driver reports of the same table, the second in another order       *)

DiffTypes == {"int", "str"}

DiffDeclared ==
    {[i \in 1..Len(f) |-> ColumnObject(i, f[i][1], f[i][2])] :
        f \in SeqsUpTo(DiffNames \X DiffTypes, MaxCols)}

\* PRAGMA table_info rows: a table's column names are unique
DiffObserved ==
    {r \in SeqsUpTo([name : DiffNames, text : {sql_types_getitem(t) : t \in DiffTypes}],
                    MaxObserved) : ~HasDuplicates(ColNames(r))}

IsPermutation(r1, r2) ==
    /\ Len(r1) = Len(r2)
    /\ \E p \in [1..Len(r1) -> 1..Len(r1)] :
          /\ \A i, j \in 1..Len(r1) : p[i] = p[j] => i = j
          /\ \A i \in 1..Len(r1) : r2[i] = r1[p[i]]

DiffInit ==
    /\ db = [t \in TableNames |-> NoTable]
    /\ committed = [t \in TableNames |-> NoTable]
    /\ inTx = FALSE
    /\ transaction = <<>>
    /\ history = <<>>
    /\ last = Idle
    /\ diff_in \in {[columns |-> c, rows1 |-> r1, rows2 |-> r2] :
                       c \in DiffDeclared,
                       r1 \in DiffObserved,
                       r2 \in DiffObserved}
    /\ IsPermutation(diff_in.rows1, diff_in.rows2)
    /\ diff_out = NoDelta
    /\ callers = NoCallers

\* lines 144-157 for one report of the driver
Diff(columns, rows) ==
    LET table_columns == FetchedColumns(rows, Len(columns))
    IN  [table_columns |-> table_columns,
         unmodified |-> Unmodified(columns, table_columns),
         to_create |-> to_create(columns, table_columns),
         to_delete |-> to_delete(columns, table_columns)]

ApplyDiff ==
    /\ ~diff_out.done
    /\ LET d1 == Diff(diff_in.columns, diff_in.rows1)
           d2 == Diff(diff_in.columns, diff_in.rows2)
       IN  diff_out' = [done |-> TRUE,
                        unmodified1 |-> d1.unmodified, unmodified2 |-> d2.unmodified,
                        to_create1 |-> d1.to_create, to_create2 |-> d2.to_create,
                        to_delete1 |-> d1.to_delete, to_delete2 |-> d2.to_delete,
                        table_columns1 |-> d1.table_columns,
                        table_columns2 |-> d2.table_columns]
    /\ UNCHANGED <<db, committed, inTx, transaction, history, last, diff_in, callers>>

DiffNext == ApplyDiff

DiffSpec == DiffInit /\ [][DiffNext]_vars

---------------------------------------------------------------------------
(* Two callers, each with a BetterSQL object (and so a connection) of its  *)
(* own on the same database file, run create_table on the same table.  A   *)
(* call advances by one stage at a time: the existence check (line 142),   *)
(* the column report (line 143), then the comparison and the statements    *)
(* with their commit or rollback (lines 144-176).  create_table runs DDL   *)
(* and queries only, so every statement is durable as it ends and both     *)
(* connections see the same tables.                                        *)

Callers == {"A", "B"}

ConcTable == CHOOSE t \in TableNames : TRUE

NewDatabase == [t \in TableNames |-> NoTable]

\* BetterSQL.__init__: a new object on a new connection to the file d
Connect(d) ==
    [db |-> d, committed |-> d, inTx |-> FALSE,
     transaction |-> <<>>, history |-> <<>>,
     calls |-> <<>>, n |-> 0, fault |-> 0, ok |-> TRUE, fetch |-> <<>>,
     ret |-> "None", raised |-> ""]

\* the table a file holds when the callers start: none, or one that an
\* earlier create_table call created
StartTables ==
    {NoTable} \cup
    {[exists |-> TRUE, cols |-> CreateArgs(c), rows |-> <<>>] :
        c \in {l \in DeclaredLists : l # <<>> /\ ~HasDuplicates(ColNames(l))}}

ConcInit ==
    /\ db \in {[t \in TableNames |-> s] : s \in StartTables}
    /\ committed = db
    /\ inTx = FALSE
    /\ transaction = <<>>
    /\ history = <<>>
    /\ last = Idle
    /\ diff_in = NoDiff
    /\ diff_out = NoDelta
    /\ callers \in {[p \in Callers |->
                        [pc |-> "call", columns |-> c[p], conn |-> Connect(NewDatabase),
                         overlapped |-> FALSE, start |-> db, after |-> NewDatabase]] :
                     c \in [Callers -> DeclaredLists]}

\* the caller's connection, looking at the file as it is now
ConcConn(p) == [callers[p].conn EXCEPT !.db = db, !.committed = committed]

\* a call has started and has not ended
Busy(c) == c.pc \notin {"call", "done"}

\* caller p ends a stage with its object and connection as m; two calls
\* overlap when one takes a stage while the other is in progress
ConcStage(p, m, pc) ==
    /\ db' = m.db
    /\ committed' = m.committed
    /\ callers' =
          [q \in Callers |->
              IF q = p
              THEN [callers[p] EXCEPT
                       !.pc = pc,
                       !.conn = [m EXCEPT !.db = NewDatabase, !.committed = NewDatabase],
                       !.overlapped = @ \/ \E r \in Callers \ {p} : Busy(callers[r]),
                       !.after = m.db]
              ELSE [callers[q] EXCEPT !.overlapped = @ \/ Busy(callers[q])]]
    /\ UNCHANGED <<inTx, transaction, history, last, diff_in, diff_out>>

\* line 142
ConcCheck(p) ==
    /\ callers[p].pc = "call"
    /\ LET m == table_exists(ConcConn(p), ConcTable)
       IN  ConcStage(p, m, IF m.ret THEN "report" ELSE "create")

\* line 143
ConcReport(p) ==
    /\ callers[p].pc = "report"
    /\ ConcStage(p, get_columns(ConcConn(p), ConcTable, Len(callers[p].columns)), "update")

\* lines 144-166 and 175-176
ConcUpdate(p) ==
    /\ callers[p].pc = "update"
    /\ ConcStage(p, create_table_update(ConcConn(p), ConcTable, callers[p].columns), "done")

\* lines 168-176
ConcCreate(p) ==
    /\ callers[p].pc = "create"
    /\ ConcStage(p, create_table_create(ConcConn(p), ConcTable, callers[p].columns), "done")

ConcNext ==
    \E p \in Callers :
        \/ ConcCheck(p)
        \/ ConcReport(p)
        \/ ConcUpdate(p)
        \/ ConcCreate(p)

ConcSpec == ConcInit /\ [][ConcNext]_vars

---------------------------------------------------------------------------
(* Properties of create_table (the specification's `ensure`) *)

\* the schema a caller observes: whether the table exists, and its columns
Schema(d, t) == [exists |-> d[t].exists, cols |-> d[t].cols]

ExecuteCalls(kinds) ==
    {i \in 1..Len(last.calls) :
        last.calls[i].call = "execute" /\ last.calls[i].cmd.kind \in kinds}
FailedCalls(kinds) == {i \in ExecuteCalls(kinds) : ~last.calls[i].ok}
DriverCalls(name) == {i \in 1..Len(last.calls) : last.calls[i].call = name}

AlterKinds == {"ALTER_ADD", "ALTER_DROP"}
AllKinds == {"SELECT_MASTER", "PRAGMA_TABLE_INFO", "CREATE_TABLE", "ALTER_ADD",
             "ALTER_DROP", "DROP_TABLE", "SELECT_ALL", "INSERT", "DELETE"}

\* C1: when a statement of an ALTER batch of create_table fails, the schema
\* observed after the call is the schema observed before it.
C1_Atomicity ==
    (last.op = "create_table" /\ FailedCalls(AlterKinds) # {})
        => \A t \in TableNames : Schema(db, t) = Schema(last.before, t)

\* a create_table that issued two ALTER statements, one of which failed, and rolled back
C1_Witness ==
    /\ last.op = "create_table"
    /\ Cardinality(ExecuteCalls(AlterKinds)) >= 2
    /\ FailedCalls(AlterKinds) # {}
    /\ DriverCalls("rollback") # {}
    /\ Len(last.before[last.table].cols) = 2

\* C2: create_table with declared columns D on an absent table returns True
\* and leaves the table with columns D; called again with D on the table the
\* first call leaves (columns D, no rows, nothing pending), it returns False
\* and the columns are still D.
C2_Idempotent ==
    (/\ last.op = "create_table" /\ last.fault = 0
     /\ ~HasDuplicates(ColNames(last.columns))
     /\ last.pending = <<>> /\ ~last.inTx)
        => /\ ~last.before[last.table].exists
                => /\ last.result = "True"
                   /\ db[last.table].cols = CreateArgs(last.columns)
           /\ last.before[last.table]
                    = [exists |-> TRUE, cols |-> CreateArgs(last.columns), rows |-> <<>>]
                => /\ last.result = "False"
                   /\ db[last.table].cols = CreateArgs(last.columns)

\* C3: a create_table call makes at most one commit-or-rollback call, and
\* exactly one when it executed at least one statement.
C3_OneCommitOrRollback ==
    last.op = "create_table"
        => LET ends == Cardinality(DriverCalls("commit")) + Cardinality(DriverCalls("rollback"))
           IN  /\ ends <= 1
               /\ ExecuteCalls(AllKinds) # {} => ends = 1

\* C4: in create_table on an existing table, the driver call that follows
\* the first failed ALTER statement is rollback.
C4_StopAfterFailure ==
    (last.op = "create_table" /\ FailedCalls(AlterKinds) # {})
        => LET first == CHOOSE i \in FailedCalls(AlterKinds) :
                            \A j \in FailedCalls(AlterKinds) : i <= j
           IN  /\ first < Len(last.calls)
               /\ last.calls[first + 1].call = "rollback"

\* C5: a create_table call whose CREATE or ALTER statement failed and that
\* rolled back does not return True.
C5_SuccessOnlyIfApplied ==
    (/\ last.op = "create_table"
     /\ FailedCalls(AlterKinds \cup {"CREATE_TABLE"}) # {}
     /\ DriverCalls("rollback") # {})
        => last.result # "True"

\* C10: when create_table applies a delta to an existing table it issues one
\* ADD per declared column whose name the table lacks and one DROP per table
\* column whose name is not declared, every ADD before every DROP, and the
\* outcome of each of them is in the transaction log.
C10_AddThenDrop ==
    LET observed == Range(ColNames(last.before[last.table].cols))
        declared == Range(ColNames(last.columns))
        toAdd == declared \ observed
        toDrop == observed \ declared
        adds == ExecuteCalls({"ALTER_ADD"})
        drops == ExecuteCalls({"ALTER_DROP"})
        log == history \o transaction
    IN  (/\ last.op = "create_table" /\ last.fault = 0
         /\ last.before[last.table].exists
         /\ ~HasDuplicates(ColNames(last.columns))
         /\ toAdd \cup toDrop # {})
            => /\ Cardinality(adds) = Cardinality(toAdd)
               /\ {last.calls[i].cmd.args[1].name : i \in adds} = toAdd
               /\ Cardinality(drops) = Cardinality(toDrop)
               /\ {last.calls[i].cmd.args[1].name : i \in drops} = toDrop
               /\ \A i \in adds, j \in drops : i < j
               /\ \A i \in adds \cup drops :
                     \E k \in 1..Len(log) :
                         log[k].cmd = last.calls[i].cmd /\ log[k].ok = last.calls[i].ok

---------------------------------------------------------------------------
(* Properties of the column comparison, under DiffSpec *)

NamesOf(cols) == Range(ColNames(cols))
Untyped(cols) == {[name |-> cols[i].name, type |-> cols[i].type] : i \in 1..Len(cols)}

\* C6: to_create is the declared names absent from the observed names and
\* to_delete is the observed columns whose name is absent from the declared
\* names; a name on both sides is in neither.
C6_DiffByName ==
    diff_out.done
        => /\ Range(diff_out.to_create1)
                = NamesOf(diff_in.columns) \ NamesOf(diff_in.rows1)
           /\ NamesOf(diff_out.to_delete1)
                = NamesOf(diff_in.rows1) \ NamesOf(diff_in.columns)

\* C7: when the observed schema is the declared schema, to_create and
\* to_delete are empty and the comparison reports the table unmodified.
C7_Reflexive ==
    (diff_out.done /\ diff_in.rows1 = CreateArgs(diff_in.columns))
        => /\ diff_out.to_create1 = <<>>
           /\ diff_out.to_delete1 = <<>>
           /\ diff_out.unmodified1

\* C8: when no declared name is an observed name, to_create is all of the
\* declared columns and to_delete is all of the observed columns.
C8_DisjointComplement ==
    (diff_out.done /\ NamesOf(diff_in.columns) \cap NamesOf(diff_in.rows1) = {})
        => /\ diff_out.to_create1 = ColNames(diff_in.columns)
           /\ diff_out.to_delete1 = diff_out.table_columns1

\* a comparison of a non-empty declared list with a non-empty table of other names
C8_Witness ==
    /\ diff_out.done
    /\ NamesOf(diff_in.columns) \cap NamesOf(diff_in.rows1) = {}
    /\ diff_in.columns # <<>>
    /\ diff_in.rows1 # <<>>

\* unchanged as the specification defines it, from one comparison's outputs
UnchangedOf(tc, td, columns, table_columns) ==
    tc = <<>> /\ td = <<>> /\ ColNames(columns) = ColNames(table_columns)

\* C9: two reports of the same columns in different orders give the same
\* to_create, the same set to_delete and the same unchanged verdict.
C9_OrderInsensitive ==
    diff_out.done
        => /\ diff_out.to_create1 = diff_out.to_create2
           /\ Untyped(diff_out.to_delete1) = Untyped(diff_out.to_delete2)
           /\ diff_out.unmodified1 = diff_out.unmodified2
           /\ UnchangedOf(diff_out.to_create1, diff_out.to_delete1,
                          diff_in.columns, diff_out.table_columns1)
                = UnchangedOf(diff_out.to_create2, diff_out.to_delete2,
                              diff_in.columns, diff_out.table_columns2)

\* a comparison against two different orders of a table that shares a name
\* with the declared list
C9_Witness ==
    /\ diff_out.done
    /\ diff_in.rows1 # diff_in.rows2
    /\ NamesOf(diff_in.columns) \cap NamesOf(diff_in.rows1) # {}

---------------------------------------------------------------------------
(* Further properties of create_table *)

\* C11: after a create_table call on an existing table that returns True, the
\* table's column names are its previous names that are still declared, in
\* their previous order, followed by the declared names it did not have.
C11_RetainedThenAdded ==
    LET old == ColNames(last.before[last.table].cols)
        new == ColNames(last.columns)
        retained == SelectIdx(old, [i \in 1..Len(old) |-> old[i] \in Range(new)], 1)
        added == SelectIdx(new, [i \in 1..Len(new) |-> new[i] \notin Range(old)], 1)
    IN  (/\ last.op = "create_table" /\ last.fault = 0
         /\ last.before[last.table].exists
         /\ ~HasDuplicates(new)
         /\ last.result = "True")
            => ColNames(db[last.table].cols) = retained \o added

\* C12: a create_table call whose declared list names a column twice is
\* rejected as an invalid column specification before the driver is called at
\* all: no execute, no commit, no rollback.
C12_DuplicateRejected ==
    (last.op = "create_table" /\ HasDuplicates(ColNames(last.columns)))
        => (last.result = "InvalidColumnSpec" /\ last.calls = <<>>)

\* C13: when the existence check of create_table fails in the driver, the call
\* ends at once with a driver error and executes no CREATE or ALTER statement.
C13_FailedCheckStops ==
    (last.op = "create_table" /\ 1 \in FailedCalls({"SELECT_MASTER"}))
        => (/\ last.result \notin {"True", "False"}
            /\ ExecuteCalls({"CREATE_TABLE"} \cup AlterKinds) = {})

\* the keyword table the statements are to honour, by declared type
NativeKeyword(t) ==
    CASE t = "None" -> "NULL"
      [] t = "int" -> "INTEGER"
      [] t = "float" -> "REAL"
      [] t = "str" -> "TEXT"
      [] t = "bytes" -> "BLOB"

\* C14: every CREATE TABLE and ALTER TABLE ... ADD statement of create_table
\* names each column with the keyword of the fixed table for its declared
\* type, and that keyword, read back, gives the declared type again.
C14_KeywordMapping ==
    last.op = "create_table" =>
        \A i \in ExecuteCalls({"CREATE_TABLE", "ALTER_ADD"}) :
            \A j \in 1..Len(last.calls[i].cmd.args) :
                \E c \in Range(last.columns) :
                    /\ c.name = last.calls[i].cmd.args[j].name
                    /\ last.calls[i].cmd.args[j].text = NativeKeyword(c.type)
                    /\ ~Column(c.name, last.calls[i].cmd.args[j].text).raised
                    /\ Column(c.name, last.calls[i].cmd.args[j].text).type = c.type

---------------------------------------------------------------------------
(* Properties of concurrent create_table calls *)

\* what a caller's create_table call returned or raised
ConcResult(c) == IF c.conn.raised # "" THEN c.conn.raised ELSE c.conn.ret

\* the file after caller p alone runs create_table on the file d
SerialAfter(d, p) == create_table(Connect(d), ConcTable, callers[p].columns).db

\* the files the two serial orders of the callers end with
SerialOutcomes ==
    {SerialAfter(SerialAfter(callers[o[1]].start, o[1]), o[2]) :
        o \in {x \in Callers \X Callers : x[1] # x[2]}}

\* C15 (serialized calls): when a create_table call that overlapped no other
\* call returns True, the table's column names right after it are the
\* names the call declared.
C15_SerializedMatchesDeclared ==
    \A p \in Callers :
        (/\ callers[p].pc = "done" /\ ~callers[p].overlapped
         /\ ConcResult(callers[p]) = "True")
            => ColNames(callers[p].after[ConcTable].cols) = ColNames(callers[p].columns)

\* C15 (interleaved calls), as the code behaves: when both calls have ended,
\* the table is the one some serial order of the two calls ends with.
C15_NoLostUpdate ==
    (\A p \in Callers : callers[p].pc = "done")
        => Schema(db, ConcTable) \in {Schema(d, ConcTable) : d \in SerialOutcomes}

\* two calls overlapped and both have ended
C15_Overlapped ==
    \A p \in Callers : callers[p].pc = "done" /\ callers[p].overlapped

---------------------------------------------------------------------------
(* Properties of the pending list and of _commit *)

PublicOps ==
    {"create_table", "delete_table", "create_record", "get_all_records",
     "delete_all_records"}

\* C16: when a public method is called, the pending list self.transaction
\* is empty.
C16_PendingEmptyAtStart ==
    last.op \in PublicOps => last.pending = <<>>

\* the methods that end with self._commit()
CommitOps == {"create_table", "delete_table", "create_record"}

\* the entry execute logs for a driver call of these methods
LoggedEntry(c) ==
    [cmd |-> c.cmd, ok |-> c.ok,
     msg |-> IF c.cmd.kind = "SELECT_MASTER" THEN "Checking if table exists" ELSE "None"]

\* the statements of the reported call that execute logged, in order
LoggedCalls ==
    SelectIdx(last.calls,
              [i \in 1..Len(last.calls) |->
                  /\ last.calls[i].call = "execute"
                  /\ last.calls[i].cmd.kind # "PRAGMA_TABLE_INFO"], 1)

\* the pending list when the reported call reached _commit
PendingAtCommit ==
    last.pending \o [i \in 1..Len(LoggedCalls) |-> LoggedEntry(LoggedCalls[i])]

ReachedCommit ==
    /\ last.op \in CommitOps
    /\ DriverCalls("commit") \cup DriverCalls("rollback") # {}

\* C17: _commit rolls back exactly when some pending entry has the outcome
\* False and commits otherwise; either way it appends the pending entries,
\* in execution order, to the history and leaves the pending list empty.
C17_CommitDecision ==
    ReachedCommit =>
        /\ (DriverCalls("rollback") # {})
              <=> (\E i \in 1..Len(PendingAtCommit) : ~PendingAtCommit[i].ok)
        /\ (DriverCalls("commit") # {})
              <=> (\A i \in 1..Len(PendingAtCommit) : PendingAtCommit[i].ok)
        /\ history = PendingAtCommit
        /\ transaction = <<>>

\* a call whose own statements all ran rolls back on an entry left pending
\* by an earlier call
C17_Witness ==
    /\ ReachedCommit
    /\ FailedCalls(AllKinds) = {}
    /\ \E i \in 1..Len(last.pending) : ~last.pending[i].ok
    /\ DriverCalls("rollback") # {}
    /\ Len(history) > Len(last.pending)

\* C18: create_record and delete_table return True only when their INSERT or
\* DROP TABLE was followed by a commit and not by a rollback.
C18_TrueOnlyIfCommitted ==
    (last.op \in {"create_record", "delete_table"} /\ last.result = "True")
        => (DriverCalls("commit") # {} /\ DriverCalls("rollback") = {})

---------------------------------------------------------------------------
(* Properties of the record methods *)

\* the records of a table as the dicts of column name and stored value, in
\* stored order
StoredRecords(tb) ==
    [r \in 1..Len(tb.rows) |->
        [i \in 1..Len(tb.cols) |-> [name |-> tb.cols[i].name, value |-> tb.rows[r][i]]]]

\* a filter holds on a record: a callable (lambda x: x > value) returns
\* truthy on the column's value, any other filter equals the column's value
FilterHolds(record, k) ==
    /\ DictHas(record, k.name)
    /\ IF k.callable
       THEN /\ DictGet(record, k.name).t = "int"
            /\ IntOf(DictGet(record, k.name).s) > IntOf(k.value.s)
       ELSE DictGet(record, k.name) = k.value

\* the records of the table on which every filter holds, in stored order
Matching(tb, kwargs) ==
    SelectIdx(StoredRecords(tb),
              [r \in 1..Len(tb.rows) |->
                  \A i \in 1..Len(kwargs) : FilterHolds(StoredRecords(tb)[r], kwargs[i])],
              1)

\* a driver error hit one of the statements of the reported call
DriverFault == last.fault \in 1..Cardinality(ExecuteCalls(AllKinds))

Remaining(tb, kwargs) ==
    SelectIdx(tb.rows,
              [r \in 1..Len(tb.rows) |->
                  ~\A i \in 1..Len(kwargs) : FilterHolds(StoredRecords(tb)[r], kwargs[i])],
              1)

\* C20: a delete_all_records call that ends without an exception, with the
\* driver working and records to delete, leaves exactly the records that
\* get_all_records would not have returned, returns True, and has committed
\* the deletion when it returns.
C20_DeleteMatching ==
    (/\ last.op = "delete_all_records"
     /\ last.result \in {"True", "False", "None"}
     /\ ~DriverFault
     /\ Matching(last.before[last.table], last.kwargs) # <<>>)
        => (/\ db[last.table].rows = Remaining(last.before[last.table], last.kwargs)
            /\ last.result = "True"
            /\ ~inTx
            /\ committed = db)

====
